---- MODULE Spec2Model ----
(***************************************************************************)
(* A model of src/server.js: an Express application with four API routes   *)
(* (health, upload, create profile, read profile) and two page routes,     *)
(* backed by a blob container (object store) and a Cosmos container        *)
(* (document store).                                                       *)
(*                                                                         *)
(* Each request in flight occupies a slot of Reqs.  A handler runs          *)
(* atomically up to its next await; every awaited store call then either   *)
(* completes (its effect on the store and the handler's continuation up to *)
(* the next await are one step) or rejects (the handler's catch block      *)
(* answers 500).  Requests in different slots interleave at these points.  *)
(* An answered request leaves its slot and is kept, with its response, in  *)
(* last until the next request is answered.                                *)
(*                                                                         *)
(* JavaScript values of the JSON body are written as their source text:    *)
(* "undefined" (key absent), "null", "0", "30", "''", "'Ana'".             *)
(***************************************************************************)
EXTENDS Integers, Sequences, FiniteSets, TLC

\* ---------------------------------------------------------------- bounds

\* Request slots: how many requests can be in flight at once.
MaxReqs == 2
\* Size of the pool uuidv4() draws from in one run.
MaxIds == 2
\* The clock (new Date()) runs from 0 to MaxTime.
MaxTime == 1

Reqs == 1..MaxReqs
Ids == 1..MaxIds

\* ------------------------------------------------------- program constants

\* multer limits.fileSize
FileSizeLimit == 4 * 1024 * 1024

\* upload.single("photo")
PhotoField == "photo"

\* path.extname(...) || ".jpg"
DefaultExt == <<".", "j", "p", "g">>

\* ------------------------------------------------------------ input values

Undefined == "undefined"

\* The spec's example body: {"name":"Ana","age":30,"bio":"hi","imageUrl":"https://x/y.jpg"}
Ana == [name |-> "'Ana'", age |-> "30", bio |-> "'hi'",
        imageUrl |-> "'https://x/y.jpg'"]

\* req.body of POST /api/profiles when express.json() has set it to an
\* object: the example, the example with age 0, the example with one field
\* absent or empty, and the empty object.
Bodies ==
  { Ana,
    [name |-> Undefined, age |-> Undefined, bio |-> Undefined,
     imageUrl |-> Undefined],
    [Ana EXCEPT !.age = "0"],
    [Ana EXCEPT !.name = Undefined],
    [Ana EXCEPT !.name = "''"],
    [Ana EXCEPT !.age = Undefined],
    [Ana EXCEPT !.bio = Undefined],
    [Ana EXCEPT !.imageUrl = "''"] }

\* The empty object {}: every key absent.
NoBody == [name |-> Undefined, age |-> Undefined, bio |-> Undefined,
           imageUrl |-> Undefined]

\* The multipart part of POST /api/upload: the form field it was sent under,
\* its file name (a sequence of characters), its declared MIME type, its
\* size in bytes and its content.
NoFile == [fieldname |-> "", originalname |-> <<>>, mimetype |-> "",
           size |-> 0, buffer |-> "none"]

Files ==
  { [fieldname |-> PhotoField, originalname |-> <<"p", ".", "p", "n", "g">>,
     mimetype |-> "image/png", size |-> 1, buffer |-> "B1"],
    [fieldname |-> PhotoField, originalname |-> <<"p">>,
     mimetype |-> "image/jpeg", size |-> FileSizeLimit, buffer |-> "B2"],
    [fieldname |-> PhotoField, originalname |-> <<".", "p">>,
     mimetype |-> "image/png", size |-> FileSizeLimit + 1, buffer |-> "B3"],
    [fieldname |-> "avatar", originalname |-> <<"p", ".", "p", "n", "g">>,
     mimetype |-> "image/png", size |-> 1, buffer |-> "B1"] }

\* ------------------------------------------------------------------ state

VARIABLES
  docs,            \* the Cosmos container: the stored documents, in insertion order
  blobs,           \* the blob container: a set of [name, bytes, contentType]
  containerExists, \* whether the blob container exists
  issued,          \* the identifiers uuidv4() has returned so far
  now,             \* the clock read by new Date()
  inclusiveLimit,  \* whether the installed multer counts a file of exactly
                   \* limits.fileSize bytes as over the limit
  bodyUndefined,   \* whether the installed express.json() leaves req.body
                   \* undefined for a request without a JSON body (Express 5)
                   \* instead of setting it to {} (Express 4)
  req,             \* per slot: the request in flight there
  last,            \* the request answered most recently, with its response
  log201           \* every 201 answered so far: its body and the request's body

vars == <<docs, blobs, containerExists, issued, now, inclusiveLimit, bodyUndefined, req, last, log201>>

NoDoc == [id |-> 0, name |-> Undefined, age |-> Undefined, bio |-> Undefined,
          imageUrl |-> Undefined, createdAt |-> [iso |-> 0]]

NoUrl == [container |-> "", blob |-> <<>>]

Idle == [route |-> "none", pc |-> "idle", bodyIsObject |-> FALSE,
         body |-> NoBody, file |-> NoFile,
         id |-> 0, doc |-> NoDoc, blobName |-> <<>>, resources |-> <<>>,
         handled |-> FALSE, calls |-> <<>>, failed |-> "none",
         sent |-> <<>>, text |-> "", outDoc |-> NoDoc, outUrl |-> NoUrl]

Init ==
  /\ docs = <<>>
  /\ blobs = {}
  /\ containerExists \in BOOLEAN
  /\ issued = {}
  /\ now = 0
  /\ inclusiveLimit \in BOOLEAN
  /\ bodyUndefined \in BOOLEAN
  /\ req = [r \in Reqs |-> Idle]
  /\ last = Idle
  /\ log201 = <<>>

\* A slot takes a new request when it is free.
CanStart(r) == req[r].pc = "idle"


\* ---------------------------------------------------- library behaviour

\* JavaScript truthiness of a body value: !v is true exactly for these.
FalsyVals == {Undefined, "null", "false", "0", "NaN", "''"}

Truthy(v) == v \notin FalsyVals

\* Mutant of Uuidv4: an identifier generator that can return a value again.
Uuidv4_Repeating == Ids

\* uuidv4(): a version-4 UUID, taken here to be one no earlier call returned.
Uuidv4 == Ids \ issued

\* new Date().toISOString(): the ISO-8601 text of the clock's reading.
ToISOString(t) == [iso |-> t]

\* Index of the last "." of a file name, 0 when it has none.
LastDot(s) ==
  LET dots == {i \in 1..Len(s) : s[i] = "."}
  IN IF dots = {} THEN 0 ELSE CHOOSE i \in dots : \A j \in dots : j <= i

\* path.extname(name) for a name without directory separators: from the last
\* "." to the end; empty when there is no ".", when the only "." leads the
\* name, and for "..".
ExtName(s) ==
  LET d == LastDot(s)
  IN IF d <= 1 \/ s = <<".", ".">> THEN <<>> ELSE SubSeq(s, d, Len(s))

\* Mutant of ExtOf: the default extension is forgotten.
ExtOf_NoDefault(f) == ExtName(f.originalname)

\* const ext = path.extname(req.file.originalname) || ".jpg"
ExtOf(f) == IF ExtName(f.originalname) = <<>> THEN DefaultExt
            ELSE ExtName(f.originalname)

\* const blobName = `${uuidv4()}${ext}`
BlobNameOf(id, f) == <<id>> \o ExtOf(f)

\* blockBlobClient.url: the container's URL followed by the blob's name.
BlobUrl(name) == [container |-> "BLOB_CONTAINER", blob |-> name]

\* Whether multer's size limit stops a file of this size.  busboy 0.x stops a
\* file once it has more than limits.fileSize bytes; busboy 1.x stops it once
\* it has reached limits.fileSize bytes.  Which one is installed is a
\* property of the build (inclusiveLimit).
OverLimit(size) ==
  size > FileSizeLimit \/ (inclusiveLimit /\ size = FileSizeLimit)

\* upload.single("photo"): what the middleware does with the request's file.
\*   "next"    no file part: the handler runs with req.file undefined
\*   "file"    the handler runs with req.file set
\*   otherwise the MulterError passed to next(err); the handler does not run
MulterSingle(f) ==
  IF f = NoFile THEN "next"
  ELSE IF f.fieldname # PhotoField THEN "LIMIT_UNEXPECTED_FILE"
  ELSE IF OverLimit(f.size) THEN "LIMIT_FILE_SIZE"
  ELSE "file"

\* Mutant of ItemsCreate: an upsert keyed on name, replacing the records of
\* that name.
ItemsCreate_UpsertByName(store, doc) ==
  Append(SelectSeq(store, LAMBDA d : d.name # doc.name), doc)

\* cosmosContainer.items.create(doc) on the stored documents.
ItemsCreate(store, doc) == Append(store, doc)

\* SELECT * FROM c WHERE c.id = @id, fetchAll(): the matches, in store order.
QueryById(store, id) == SelectSeq(store, LAMBDA d : d.id = id)

\* blockBlobClient.uploadData(buffer, {blobContentType}): writes the blob of
\* that name, replacing one that exists.
UploadData(store, name, f) ==
  {b \in store : b.name # name}
    \cup {[name |-> name, bytes |-> f.buffer, contentType |-> f.mimetype]}

\* --------------------------------------------------------------- handlers

New(route) == [Idle EXCEPT !.route = route]

\* res.status(s).send(text) / res.status(s).json(...): ends the request.
Respond(q, status, text, doc, url) ==
  [q EXCEPT !.pc = "done", !.sent = Append(@, status), !.text = text,
            !.outDoc = doc, !.outUrl = url]

\* catch (err) { console.error(err); res.status(500).send(text) }
Catch(q, text) ==
  Respond([q EXCEPT !.failed = q.calls[Len(q.calls)]], 500, text, NoDoc, NoUrl)

\* Mutant of MissingFields: age is tested like the others, with !age.
MissingFields_FalsyAge(b) ==
  ~Truthy(b.name) \/ ~Truthy(b.age) \/ ~Truthy(b.bio) \/ ~Truthy(b.imageUrl)

\* if (!name || age === undefined || !bio || !imageUrl)
MissingFields(b) ==
  ~Truthy(b.name) \/ b.age = Undefined \/ ~Truthy(b.bio) \/ ~Truthy(b.imageUrl)

\* Mutant of MakeDoc: bio is filled from name.
MakeDoc_BioFromName(id, b, t) ==
  [id |-> id, name |-> b.name, age |-> b.age, bio |-> b.name,
   imageUrl |-> b.imageUrl, createdAt |-> ToISOString(t)]

\* const doc = { id, name, age, bio, imageUrl, createdAt }
MakeDoc(id, b, t) ==
  [id |-> id, name |-> b.name, age |-> b.age, bio |-> b.bio,
   imageUrl |-> b.imageUrl, createdAt |-> ToISOString(t)]

\* GET /api/health
Health(r) ==
  /\ CanStart(r)
  /\ last' = Respond([New("health") EXCEPT !.handled = TRUE], 200,
               "Service is running", NoDoc, NoUrl)
  /\ req' = [req EXCEPT ![r] = Idle]
  /\ UNCHANGED <<docs, blobs, containerExists, issued, now, inclusiveLimit, bodyUndefined, log201>>

\* GET / and GET /profile/:id: res.sendFile of a view.
Page(r) ==
  /\ CanStart(r)
  /\ last' = Respond([New("page") EXCEPT !.handled = TRUE], 200, "html", NoDoc, NoUrl)
  /\ req' = [req EXCEPT ![r] = Idle]
  /\ UNCHANGED <<docs, blobs, containerExists, issued, now, inclusiveLimit, bodyUndefined, log201>>

\* POST /api/upload whose file multer refuses: next(err) reaches Express's
\* default error handler, which answers 500; the route handler does not run.
UploadRefused(r, f) ==
  /\ CanStart(r)
  /\ MulterSingle(f) \notin {"next", "file"}
  /\ last' = Respond([New("upload") EXCEPT !.file = f], 500, MulterSingle(f),
               NoDoc, NoUrl)
  /\ req' = [req EXCEPT ![r] = Idle]
  /\ UNCHANGED <<docs, blobs, containerExists, issued, now, inclusiveLimit, bodyUndefined, log201>>

\* POST /api/upload, if (!req.file) return res.status(400).send(...)
UploadNoFile(r, f) ==
  /\ CanStart(r)
  /\ MulterSingle(f) = "next"
  /\ last' = Respond([New("upload") EXCEPT !.file = f, !.handled = TRUE], 400,
               "No file uploaded. Field name must be 'photo'.", NoDoc, NoUrl)
  /\ req' = [req EXCEPT ![r] = Idle]
  /\ UNCHANGED <<docs, blobs, containerExists, issued, now, inclusiveLimit, bodyUndefined, log201>>

\* POST /api/upload with req.file set, up to await createIfNotExists().
UploadStart(r, f) ==
  /\ CanStart(r)
  /\ MulterSingle(f) = "file"
  /\ req' = [req EXCEPT ![r] =
       [New("upload") EXCEPT !.file = f, !.handled = TRUE,
          !.pc = "awaitContainer", !.calls = <<"createIfNotExists">>]]
  /\ UNCHANGED <<docs, blobs, containerExists, issued, now, inclusiveLimit, bodyUndefined, log201, last>>

\* createIfNotExists() completes; the handler names the blob and awaits
\* uploadData().
CreateIfNotExistsOk(r) ==
  /\ req[r].pc = "awaitContainer"
  /\ containerExists' = TRUE
  /\ \E id \in Uuidv4 :
       /\ issued' = issued \cup {id}
       /\ req' = [req EXCEPT ![r] =
            [@ EXCEPT !.id = id, !.blobName = BlobNameOf(id, req[r].file),
               !.pc = "awaitUpload", !.calls = Append(@, "uploadData")]]
  /\ UNCHANGED <<docs, blobs, now, inclusiveLimit, bodyUndefined, log201, last>>

\* Mutant of CreateIfNotExistsFail: the rejection is swallowed and the handler
\* goes on to uploadData().
CreateIfNotExistsFail_Swallowed(r) ==
  /\ req[r].pc = "awaitContainer"
  /\ \E id \in Uuidv4 :
       /\ issued' = issued \cup {id}
       /\ req' = [req EXCEPT ![r] =
            [@ EXCEPT !.failed = "createIfNotExists", !.id = id,
               !.blobName = BlobNameOf(id, req[r].file),
               !.pc = "awaitUpload", !.calls = Append(@, "uploadData")]]
  /\ UNCHANGED <<docs, blobs, containerExists, now, inclusiveLimit, bodyUndefined, log201, last>>

\* createIfNotExists() rejects.
CreateIfNotExistsFail(r) ==
  /\ req[r].pc = "awaitContainer"
  /\ last' = Catch(req[r], "Upload failed.")
  /\ req' = [req EXCEPT ![r] = Idle]
  /\ UNCHANGED <<docs, blobs, containerExists, issued, now, inclusiveLimit, bodyUndefined, log201>>

\* uploadData() completes: res.json({ imageUrl }).
UploadDataOk(r) ==
  /\ req[r].pc = "awaitUpload"
  /\ containerExists
  /\ blobs' = UploadData(blobs, req[r].blobName, req[r].file)
  /\ last' = Respond(req[r], 200, "", NoDoc, BlobUrl(req[r].blobName))
  /\ req' = [req EXCEPT ![r] = Idle]
  /\ UNCHANGED <<docs, containerExists, issued, now, inclusiveLimit, bodyUndefined, log201>>

\* uploadData() rejects.
UploadDataFail(r) ==
  /\ req[r].pc = "awaitUpload"
  /\ last' = Catch(req[r], "Upload failed.")
  /\ req' = [req EXCEPT ![r] = Idle]
  /\ UNCHANGED <<docs, blobs, containerExists, issued, now, inclusiveLimit, bodyUndefined, log201>>

\* POST /api/profiles without a JSON body, where express.json() leaves
\* req.body undefined: const { name, age, bio, imageUrl } = req.body throws a
\* TypeError inside the try block, and the catch block answers 500.  (Where
\* express.json() sets req.body to {}, the request is a create with the
\* empty object.)
CreateProfileBodyUndefined(r) ==
  /\ CanStart(r)
  /\ bodyUndefined
  /\ last' = Respond([New("createProfile") EXCEPT !.handled = TRUE], 500,
               "Create profile failed.", NoDoc, NoUrl)
  /\ req' = [req EXCEPT ![r] = Idle]
  /\ UNCHANGED <<docs, blobs, containerExists, issued, now, inclusiveLimit, bodyUndefined, log201>>

\* POST /api/profiles failing the presence check.
CreateProfileRejected(r, b) ==
  /\ CanStart(r)
  /\ MissingFields(b)
  /\ last' = Respond([New("createProfile") EXCEPT !.bodyIsObject = TRUE, !.body = b, !.handled = TRUE], 400,
               "Missing fields: name, age, bio, imageUrl are required.",
               NoDoc, NoUrl)
  /\ req' = [req EXCEPT ![r] = Idle]
  /\ UNCHANGED <<docs, blobs, containerExists, issued, now, inclusiveLimit, bodyUndefined, log201>>

\* POST /api/profiles passing the presence check, up to await items.create(doc).
CreateProfileStart(r, b) ==
  /\ CanStart(r)
  /\ ~MissingFields(b)
  /\ \E id \in Uuidv4 :
       /\ issued' = issued \cup {id}
       /\ req' = [req EXCEPT ![r] =
            [New("createProfile") EXCEPT !.bodyIsObject = TRUE, !.body = b, !.handled = TRUE,
               !.id = id, !.doc = MakeDoc(id, b, now),
               !.pc = "awaitCreate", !.calls = <<"items.create">>]]
  /\ UNCHANGED <<docs, blobs, containerExists, now, inclusiveLimit, bodyUndefined, log201, last>>

\* items.create(doc) completes: res.status(201).json(doc).
ItemsCreateOk(r) ==
  /\ req[r].pc = "awaitCreate"
  /\ docs' = ItemsCreate(docs, req[r].doc)
  /\ last' = Respond(req[r], 201, "", req[r].doc, NoUrl)
  /\ req' = [req EXCEPT ![r] = Idle]
  /\ log201' = Append(log201, [doc |-> req[r].doc, body |-> req[r].body])
  /\ UNCHANGED <<blobs, containerExists, issued, now, inclusiveLimit, bodyUndefined>>

\* items.create(doc) rejects.
ItemsCreateFail(r) ==
  /\ req[r].pc = "awaitCreate"
  /\ last' = Catch(req[r], "Create profile failed.")
  /\ req' = [req EXCEPT ![r] = Idle]
  /\ UNCHANGED <<docs, blobs, containerExists, issued, now, inclusiveLimit, bodyUndefined, log201>>

\* GET /api/profiles/:id, up to await items.query(query).fetchAll().
ReadProfileStart(r, id) ==
  /\ CanStart(r)
  /\ req' = [req EXCEPT ![r] =
       [New("readProfile") EXCEPT !.id = id, !.handled = TRUE,
          !.pc = "awaitQuery", !.calls = <<"query.fetchAll">>]]
  /\ UNCHANGED <<docs, blobs, containerExists, issued, now, inclusiveLimit, bodyUndefined, log201, last>>

\* Mutant of ReadAnswer: the empty-result check is forgotten, and
\* res.json(resources[0]) answers 200 with no document.
ReadAnswer_NoEmptyCheck(q, resources) ==
  Respond([q EXCEPT !.resources = resources], 200, "",
          IF resources = <<>> THEN NoDoc ELSE resources[1], NoUrl)

\* What the read handler answers with the query's resources.
ReadAnswer(q, resources) ==
  IF resources = <<>>
    THEN Respond([q EXCEPT !.resources = resources], 404, "Not found", NoDoc, NoUrl)
    ELSE Respond([q EXCEPT !.resources = resources], 200, "", resources[1], NoUrl)

\* fetchAll() completes.
FetchAllOk(r) ==
  /\ req[r].pc = "awaitQuery"
  /\ last' = ReadAnswer(req[r], QueryById(docs, req[r].id))
  /\ req' = [req EXCEPT ![r] = Idle]
  /\ UNCHANGED <<docs, blobs, containerExists, issued, now, inclusiveLimit, bodyUndefined, log201>>

\* fetchAll() rejects.
FetchAllFail(r) ==
  /\ req[r].pc = "awaitQuery"
  /\ last' = Catch(req[r], "Read profile failed.")
  /\ req' = [req EXCEPT ![r] = Idle]
  /\ UNCHANGED <<docs, blobs, containerExists, issued, now, inclusiveLimit, bodyUndefined, log201>>

\* Time passes.
Tick ==
  /\ now < MaxTime
  /\ now' = now + 1
  /\ UNCHANGED <<docs, blobs, containerExists, issued, inclusiveLimit, bodyUndefined, req, last, log201>>

Next ==
  \/ Tick
  \/ \E r \in Reqs :
       \/ Health(r)
       \/ Page(r)
       \/ \E f \in Files \cup {NoFile} :
            \/ UploadRefused(r, f)
            \/ UploadNoFile(r, f)
            \/ UploadStart(r, f)
       \/ CreateIfNotExistsOk(r)
       \/ CreateIfNotExistsFail(r)
       \/ UploadDataOk(r)
       \/ UploadDataFail(r)
       \/ CreateProfileBodyUndefined(r)
       \/ \E b \in Bodies :
            \/ CreateProfileRejected(r, b)
            \/ CreateProfileStart(r, b)
       \/ ItemsCreateOk(r)
       \/ ItemsCreateFail(r)
       \/ \E id \in Ids : ReadProfileStart(r, id)
       \/ FetchAllOk(r)
       \/ FetchAllFail(r)

Spec == Init /\ [][Next]_vars

\* ----------------------------------------------------------------- claims

\* A body with at least one of the four keys absent.  The body of a request
\* for which req.body is undefined is recorded as NoBody: all four are absent.
AnyAbsent(b) == Undefined \in {b.name, b.age, b.bio, b.imageUrl}

\* C1: a POST /api/profiles with one of name, age, bio, imageUrl missing is
\* answered 400, issues no store call and leaves the document store as it was.
C1_MissingFieldRejected ==
  [][(last' # last /\ last'.route = "createProfile" /\ AnyAbsent(last'.body))
       => (last'.sent = <<400>> /\ last'.calls = <<>> /\ docs' = docs)]_vars

\* C2: once a create was answered 201 with identifier i, a read of i whose
\* query does not fail answers 200 with the record of the 201 body, whose
\* name, age, bio and imageUrl are those submitted.  (A request is in last
\* only after every 201 of log201 was answered.)
C2_CreatedIsRetrievable ==
  (last.route = "readProfile" /\ last.failed = "none") =>
    \A k \in 1..Len(log201) :
      log201[k].doc.id = last.id =>
        /\ last.sent = <<200>>
        /\ last.outDoc = log201[k].doc
        /\ last.outDoc.name = log201[k].body.name
        /\ last.outDoc.age = log201[k].body.age
        /\ last.outDoc.bio = log201[k].body.bio
        /\ last.outDoc.imageUrl = log201[k].body.imageUrl

C2_Witness ==
  /\ last.route = "readProfile"
  /\ last.sent = <<200>>
  /\ \E k \in 1..Len(log201) : log201[k].doc.id = last.id

\* Positions of the stored records with this id.
Hits(id) == {i \in 1..Len(docs) : docs[i].id = id}

\* C3: a read whose query does not fail answers 404 when no stored record has
\* the id; it answers 200 only when one has, with the first record of the
\* query result, which is the first stored record with that id.  (The store
\* changes only when a request is answered, so while a read is in last the
\* store is as its query saw it.)
C3_ReadNotFound ==
  (last.route = "readProfile" /\ last.failed = "none") =>
    /\ Hits(last.id) = {} => last.sent = <<404>>
    /\ last.sent = <<200>> =>
         /\ Hits(last.id) # {}
         /\ last.resources # <<>>
         /\ last.outDoc = last.resources[1]
         /\ \A i \in Hits(last.id) :
              (\A j \in Hits(last.id) : i <= j) => last.outDoc = docs[i]

C3_Witness ==
  /\ last.route = "readProfile"
  /\ last.sent = <<404>>
  /\ docs # <<>>

\* A request that carries a file under the form field photo.
CarriesPhoto(f) == f # NoFile /\ f.fieldname = PhotoField

\* C4: an upload that carries no file under the field photo is answered 400
\* and issues no call to the object store.
C4_NoPhotoIs400 ==
  (last.route = "upload" /\ ~CarriesPhoto(last.file)) =>
    (last.sent = <<400>> /\ last.calls = <<>>)

\* C5: an upload whose photo is larger than 4 MiB never reaches the handler
\* and issues no object-store call; a photo of 4 MiB or less is passed to the
\* handler.
C5_SizeLimit ==
  (last.route = "upload" /\ CarriesPhoto(last.file)) =>
    /\ last.file.size > 4 * 1024 * 1024 =>
         (~last.handled /\ last.calls = <<>>)
    /\ last.file.size <= 4 * 1024 * 1024 => last.handled

\* C6: no two creates answered 201 return the same id, and no two stored
\* records have the same id.
C6_UniqueIds ==
  /\ \A j, k \in 1..Len(log201) :
       j # k => log201[j].doc.id # log201[k].doc.id
  /\ \A j, k \in 1..Len(docs) : j # k => docs[j].id # docs[k].id

C6_Witness == Len(log201) >= 2 /\ Len(docs) >= 2

\* C7: a stored record is never changed or removed: the store after a step
\* extends the store before it.
C7_StoreOnlyGrows ==
  [][/\ Len(docs') >= Len(docs)
     /\ \A i \in 1..Len(docs) : docs'[i] = docs[i]]_vars

C7_Witness ==
  /\ Len(docs) >= 1
  /\ last.route = "upload"
  /\ last.sent = <<200>>

\* How often a call was issued by a request.
Issued(q, call) == Cardinality({i \in 1..Len(q.calls) : q.calls[i] = call})

\* C8: a request whose store call failed is answered 500, once; the failed
\* call was issued once and is the last call the request issued.  A request
\* still in flight has had no failure and no answer, and no request is
\* answered twice.
C8_FailureIsTerminal ==
  /\ last.failed # "none" =>
       /\ last.route \in {"upload", "createProfile", "readProfile"}
       /\ last.sent = <<500>>
       /\ last.calls[Len(last.calls)] = last.failed
       /\ Issued(last, last.failed) = 1
  /\ Len(last.sent) <= 1
  /\ \A r \in Reqs : req[r].failed = "none" /\ req[r].sent = <<>>

C8_Witness ==
  /\ last.route = "upload"
  /\ last.failed = "createIfNotExists"
  /\ last.sent = <<500>>
  /\ last.calls = <<"createIfNotExists">>

\* Whether sequence s ends with sequence e.
EndsWith(s, e) ==
  Len(e) <= Len(s) /\ SubSeq(s, Len(s) - Len(e) + 1, Len(s)) = e

\* The extension the blob's name must carry for this file name.
WantedExt(orig) ==
  IF \E i \in 2..Len(orig) : orig[i] = "."
    THEN ExtName(orig) ELSE <<".", "j", "p", "g">>

\* C9: the step that answers an upload 200 adds exactly one object to the
\* object store, under a name no object had, after createIfNotExists and
\* with the container existing; the object holds the submitted bytes and the
\* declared MIME type, its name ends with the file's extension (.jpg when it
\* has none), and the imageUrl answered is that object's URL.
C9_UploadCreatesObject ==
  [][(last' # last /\ last'.route = "upload" /\ last'.sent = <<200>>) =>
       LET q == last'
           obj == [name |-> q.blobName, bytes |-> q.file.buffer,
                   contentType |-> q.file.mimetype]
       IN /\ blobs' = blobs \cup {obj}
          /\ \A b \in blobs : b.name # obj.name
          /\ Cardinality(blobs') = Cardinality(blobs) + 1
          /\ q.calls = <<"createIfNotExists", "uploadData">>
          /\ containerExists
          /\ EndsWith(q.blobName, WantedExt(q.file.originalname))
          /\ q.outUrl.blob = obj.name
          /\ q.outUrl = BlobUrl(obj.name)]_vars

C9_Witness ==
  /\ last.route = "upload"
  /\ last.sent = <<200>>
  /\ last.file.originalname = <<"p">>
  /\ Cardinality(blobs) = 2

\* The bodies the claim says the presence check rejects.
ClaimRejects(b) ==
  \/ b.name \in FalsyVals
  \/ b.bio \in FalsyVals
  \/ b.imageUrl \in FalsyVals
  \/ b.age = "undefined"

\* C10 as stated, of the requests that reach the presence check (req.body is
\* an object): a create is answered 400 exactly when name, bio or
\* imageUrl is falsy or age is undefined; every stored record has a non-empty
\* name, bio and imageUrl and a defined age; every other body, one with age 0
\* among them, is answered 201.
C10_AcceptedIs201 ==
  /\ (last.route = "createProfile" /\ last.bodyIsObject) =>
       /\ last.sent = <<400>> <=> ClaimRejects(last.body)
       /\ ~ClaimRejects(last.body) => last.sent = <<201>>
  /\ \A i \in 1..Len(docs) :
       /\ docs[i].name \notin {"undefined", "''"}
       /\ docs[i].bio \notin {"undefined", "''"}
       /\ docs[i].imageUrl \notin {"undefined", "''"}
       /\ docs[i].age # "undefined"

\* C10, amended, of the requests that reach the presence check (req.body is
\* an object): a create is answered 400 exactly when name, bio or imageUrl
\* is falsy or age is undefined, and only a body that passes the check is
\* ever in flight; every stored record has a non-empty name, bio and imageUrl
\* and a defined age; every other body, one with age 0 among them, is
\* answered 201 when items.create succeeds and 500 when it fails.
C10_PresenceCheck ==
  /\ (last.route = "createProfile" /\ last.bodyIsObject) =>
       /\ last.sent = <<400>> <=> ClaimRejects(last.body)
       /\ (~ClaimRejects(last.body) /\ last.failed = "none") => last.sent = <<201>>
       /\ (~ClaimRejects(last.body) /\ last.failed # "none") => last.sent = <<500>>
  /\ \A r \in Reqs : req[r].route = "createProfile" => ~ClaimRejects(req[r].body)
  /\ \A i \in 1..Len(docs) :
       /\ docs[i].name \notin {"undefined", "''"}
       /\ docs[i].bio \notin {"undefined", "''"}
       /\ docs[i].imageUrl \notin {"undefined", "''"}
       /\ docs[i].age # "undefined"

C10_Witness ==
  /\ last.route = "createProfile"
  /\ last.body.age = "0"
  /\ last.sent = <<201>>
  /\ \E i \in 1..Len(docs) : docs[i].age = "0"

====
